---- MODULE Spec2Model ----
(***************************************************************************)
(* Model of src/app.py: the Flask handler index() with its helpers         *)
(* get_stock_data() and get_recent_news(), and the process-wide pyplot     *)
(* figure registry the handler draws through.                              *)
(*                                                                         *)
(* Strings are modelled as sequences of tokens (each token a TLA+ string), *)
(* so that concatenation, startswith, strip and the substring tests of the *)
(* code are computed and not assumed.                                      *)
(***************************************************************************)
EXTENDS Integers, Sequences, FiniteSets, TLC

\* ------------------------------------------------------------------ bounds
NumThreads == 2      \* handler threads of the threaded server
MaxRequests == 2     \* requests accepted in one run
MaxLen == 2          \* rows of a price frame
MaxArticles == 2     \* articles in one news response

\* ------------------------------------------------------------------ program constants
pageSize == 5        \* pageSize=5 of the news query
HTTP_OK == 200       \* r.status_code != 200

Threads == 1..NumThreads
MainThread == 1

\* ------------------------------------------------------------------ strings
Glyph == "WARNING_GLYPH"          \* the two code points U+26A0 U+FE0F
Null == <<"<None>">>              \* Python None / JSON null where a string may stand
Absent == <<"<absent>">>          \* a key that is not in a dict / query string
Unset == <<"<unset>">>            \* a local that is not assigned yet
Whitespace == {" ", "\n"}

startswith(s, tok) == Len(s) > 0 /\ s[1] = tok

\* "x in msg" for a str msg: a substring test, here a token of the message
Contains(msg, tok) == \E i \in 1..Len(msg) : msg[i] = tok

RECURSIVE lstrip(_)
lstrip(s) == IF Len(s) > 0 /\ s[1] \in Whitespace THEN lstrip(Tail(s)) ELSE s

RECURSIVE rstrip(_)
rstrip(s) ==
    IF Len(s) > 0 /\ s[Len(s)] \in Whitespace THEN rstrip(SubSeq(s, 1, Len(s) - 1)) ELSE s

strip(s) == rstrip(lstrip(s))

\* str(x) as an f-string field formats it: None prints as "None"
Fmt(s) == IF s = Null THEN <<"None">> ELSE s

upper(s) == CASE s = "msft" -> "MSFT"
              [] s = "aapl" -> "AAPL"
              [] OTHER -> s

SeqsUpTo(S, n) == UNION {[1..k -> S] : k \in 0..n}

Min(a, b) == IF a < b THEN a ELSE b

\* ------------------------------------------------------------------ price history
NoArg == "<no ticker arg>"

NoneData == [columns |-> "<None>", close |-> <<>>]

\* the close prices the sample frames are built from
Prices == {0, 1}

\* what yf.download(ticker, period="30d", interval="1d") can do: raise, or return
\* a frame (possibly empty) whose columns are flat or a (Price, Ticker) MultiIndex
Downloads ==
    {[raises |-> TRUE, columns |-> "flat", close |-> <<>>]}
    \cup {[raises |-> FALSE, columns |-> c, close |-> s] :
            c \in {"flat", "multi"}, s \in SeqsUpTo(Prices, MaxLen)}

\* a fetch that forgets the data.empty test
get_stock_data_unchecked(dl) ==
    IF dl.raises THEN NoneData
    ELSE [columns |-> dl.columns, close |-> dl.close]

get_stock_data(dl) ==
    IF dl.raises THEN NoneData                       \* except Exception: return None
    ELSE IF Len(dl.close) = 0 THEN NoneData          \* if data.empty: return None
    ELSE [columns |-> dl.columns, close |-> dl.close]

\* ------------------------------------------------------------------ news
NoKeyAdvisory == <<Glyph, " No API key found (missing NEWSAPI_KEY).">>

JsonError == <<"Expecting value: line 1 column 1 (char 0)">>

Articles == {[has_title |-> b, title |-> "Apple beats estimates"] : b \in BOOLEAN}

Messages == {Absent, Null, <<"rateLimited">>, <<"apiKeyInvalid">>, <<"apiKeyMissing">>,
             <<"parameterInvalid">>}

\* the body of a response as r.json() sees it
Jsons ==
    {[parses |-> FALSE, status |-> "<absent>", message |-> Absent,
      articles_kind |-> "absent", articles |-> <<>>]}
    \cup {[parses |-> TRUE, status |-> "error", message |-> m,
           articles_kind |-> "absent", articles |-> <<>>] : m \in Messages}
    \cup {[parses |-> TRUE, status |-> "ok", message |-> Absent,
           articles_kind |-> k, articles |-> <<>>] : k \in {"absent", "null"}}
    \cup {[parses |-> TRUE, status |-> "ok", message |-> Absent,
           articles_kind |-> "list", articles |-> a] :
              a \in SeqsUpTo(Articles, Min(pageSize, MaxArticles))}

\* what requests.get(url) can do: raise, or return a response
Https ==
    {[neterr |-> TRUE, e |-> <<"Connection refused">>, status_code |-> 0,
      json |-> CHOOSE j \in Jsons : ~j.parses]}
    \cup {[neterr |-> FALSE, e |-> <<>>, status_code |-> c, json |-> j] :
            c \in {HTTP_OK, 429}, j \in Jsons}

\* dict.get(key, default) on the message field
GetMessage(json, default) == IF json.message = Absent THEN default ELSE json.message

RECURSIVE JoinHeadlines(_)
\* "\n".join(f"- {h}" for h in headlines)
JoinHeadlines(hs) ==
    IF Len(hs) = 0 THEN <<>>
    ELSE IF Len(hs) = 1 THEN <<"- ", hs[1]>>
    ELSE <<"- ", hs[1], "\n">> \o JoinHeadlines(Tail(hs))

RECURSIVE Titles(_)
\* [a["title"] for a in articles if "title" in a]
Titles(as) ==
    IF Len(as) = 0 THEN <<>>
    ELSE (IF as[1].has_title THEN <<as[1].title>> ELSE <<>>) \o Titles(Tail(as))

NewsValue(v, n) == [raises |-> FALSE, exc |-> "", value |-> v, requests |-> n]
NewsRaise(x, n) == [raises |-> TRUE, exc |-> x, value |-> Unset, requests |-> n]

NetworkAdvisory(e) == <<Glyph, " Network error while fetching headlines: ">> \o e

\* lines 60-74: the body decoded from a 200 response
NewsFromBody(json) ==
    IF json.status # "ok" THEN
        LET msg == GetMessage(json, <<"unknown issue">>) IN
        IF msg = Null THEN NewsRaise("TypeError", 1)      \* "rateLimited" in None
        ELSE IF Contains(msg, "rateLimited")
            THEN NewsValue(<<Glyph, " API quota reached for today (NewsAPI free plan).">>, 1)
        ELSE IF Contains(msg, "apiKeyInvalid") \/ Contains(msg, "apiKeyMissing")
            THEN NewsValue(<<Glyph, " Invalid or missing NewsAPI key.">>, 1)
        ELSE NewsValue(<<Glyph, " NewsAPI issue: ">> \o msg, 1)
    ELSE IF json.articles_kind # "list" \/ Len(json.articles) = 0
        THEN NewsValue(<<Glyph, " No recent headlines available for this ticker.">>, 1)
    ELSE NewsValue(JoinHeadlines(Titles(json.articles)), 1)

\* a fetch that tests the key with "is None" and so sends an empty key
get_recent_news_is_none(api_key, http) ==
    IF api_key = "<None>" THEN NewsValue(NoKeyAdvisory, 0)
    ELSE IF http.neterr THEN NewsValue(NetworkAdvisory(http.e), 1)
    ELSE IF ~http.json.parses THEN NewsValue(NetworkAdvisory(JsonError), 1)
    ELSE IF http.status_code # HTTP_OK
        THEN NewsValue(<<Glyph, " NewsAPI returned ", ToString(http.status_code), ": ">>
                        \o Fmt(GetMessage(http.json, <<"unknown error">>)), 1)
    ELSE NewsFromBody(http.json)

\* a fetch that sends the request again after a network error
get_recent_news_retry(api_key, http) ==
    IF api_key \in {"<None>", ""} THEN NewsValue(NoKeyAdvisory, 0)
    ELSE IF http.neterr THEN NewsValue(NetworkAdvisory(http.e), 2)
    ELSE IF ~http.json.parses THEN NewsValue(NetworkAdvisory(JsonError), 1)
    ELSE IF http.status_code # HTTP_OK
        THEN NewsValue(<<Glyph, " NewsAPI returned ", ToString(http.status_code), ": ">>
                        \o Fmt(GetMessage(http.json, <<"unknown error">>)), 1)
    ELSE NewsFromBody(http.json)

get_recent_news(api_key, http) ==
    IF api_key \in {"<None>", ""} THEN NewsValue(NoKeyAdvisory, 0)
    ELSE IF http.neterr THEN NewsValue(NetworkAdvisory(http.e), 1)
    ELSE IF http.status_code # HTTP_OK THEN
        IF ~http.json.parses THEN NewsValue(NetworkAdvisory(JsonError), 1)
        ELSE NewsValue(<<Glyph, " NewsAPI returned ", ToString(http.status_code), ": ">>
                        \o Fmt(GetMessage(http.json, <<"unknown error">>)), 1)
    ELSE IF ~http.json.parses THEN NewsValue(NetworkAdvisory(JsonError), 1)
    ELSE NewsFromBody(http.json)

\* ------------------------------------------------------------------ pyplot
\* The figure registry of matplotlib.pyplot (Gcf.figs): the open figures in
\* activation order, the last one the current figure.  It is module state,
\* shared by every thread of the process.
NoFigure == [num |-> 0, owner |-> 0, lines |-> <<>>, title |-> <<>>]

NoImage == [encoding |-> "none", png |-> NoFigure]

MaxNum(fs) == IF Len(fs) = 0 THEN 0
              ELSE CHOOSE n \in {fs[i].num : i \in 1..Len(fs)} :
                       \A i \in 1..Len(fs) : fs[i].num <= n

\* plt.figure(): a new figure numbered max+1 becomes the current figure
new_figure(fs, r) ==
    Append(fs, [num |-> MaxNum(fs) + 1, owner |-> r, lines |-> <<>>, title |-> <<>>])

\* plt.gcf(): the current figure, created when no figure is open
gcf(fs, r) == IF Len(fs) = 0 THEN new_figure(fs, r) ELSE fs

\* plt.plot(...): a line added to the current figure
plot(fs, r) ==
    LET g == gcf(fs, r) IN
    [g EXCEPT ![Len(g)].lines = Append(@, r)]

\* plt.title(...) and the other decorations of the current axes
title(fs, r, text) ==
    LET g == gcf(fs, r) IN
    [g EXCEPT ![Len(g)].title = text]

\* plt.savefig(img, format="png"): the current figure rasterised
savefig(fs, r) == LET g == gcf(fs, r) IN g[Len(g)]

\* base64.b64encode(img.getvalue()).decode()
b64encode(png) == [encoding |-> "base64", png |-> png]

\* plt.close(): the current figure destroyed, nothing when none is open
close(fs) == IF Len(fs) = 0 THEN fs ELSE SubSeq(fs, 1, Len(fs) - 1)

ChartTitle(ticker) == <<ticker, " - Last 30 Days">>

\* ------------------------------------------------------------------ commentary
\* what client.chat.completions.create(...) can do: raise, or return a
\* completion with no choice, a choice without content, or a choice with text
Chats ==
    {[raises |-> TRUE, e |-> m, nchoices |-> 0, content |-> Null] :
        m \in {<<"Connection error.">>, <<>>}}
    \cup {[raises |-> FALSE, e |-> <<>>, nchoices |-> 0, content |-> Null]}
    \cup {[raises |-> FALSE, e |-> <<>>, nchoices |-> 1, content |-> c] :
            c \in {Null, <<" ", "Shares rose on earnings.", "\n">>, <<"Shares fell.">>}}

\* str(e) of the exception the try body of lines 138-144 raises, Unset when it
\* raises none: create() raising, choices[0] of no choice (IndexError),
\* .strip() of a content of None (AttributeError)
ChatError(chat) ==
    IF chat.raises THEN chat.e
    ELSE IF chat.nchoices = 0 THEN <<"list index out of range">>
    ELSE IF chat.content = Null THEN <<"'NoneType' object has no attribute 'strip'">>
    ELSE Unset

\* a handler that drops the error detail
summary_generic(chat) ==
    IF ChatError(chat) # Unset
    THEN <<"(AI summary unavailable)">>
    ELSE strip(chat.content)

\* lines 137-146: the value of comment
summary(chat) ==
    IF ChatError(chat) # Unset
    THEN <<"(AI summary unavailable: ">> \o ChatError(chat) \o <<")">>
    ELSE strip(chat.content)

\* ------------------------------------------------------------------ responses
NoResponse == [kind |-> "none", ticker |-> "", form |-> FALSE, img |-> NoImage,
               recap |-> <<>>, warning |-> <<>>]

\* line 85
NoDataPage(ticker) == [kind |-> "nodata", ticker |-> ticker, form |-> FALSE,
                       img |-> NoImage, recap |-> <<>>, warning |-> <<>>]

\* line 199
WarningParagraph(headlines) ==
    IF startswith(headlines, Glyph)
    THEN <<"<p class='warning'>">> \o headlines \o <<"</p>">>
    ELSE <<>>

\* lines 149-204
HtmlPage(ticker, plot_url, comment, headlines) ==
    [kind |-> "page", ticker |-> ticker, form |-> TRUE, img |-> plot_url,
     recap |-> comment, warning |-> WarningParagraph(headlines)]

\* an exception left index(): with PROPAGATE_EXCEPTIONS it reaches the server
ErrorResponse == [kind |-> "exception", ticker |-> "", form |-> FALSE, img |-> NoImage,
                  recap |-> <<>>, warning |-> <<>>]

\* ------------------------------------------------------------------ state
VARIABLES
    environ,    \* os.environ["NEWSAPI_KEY"], "<None>" when not set
    figs,       \* pyplot's figure registry, shared by all threads
    accepted,   \* requests accepted so far; the next request is accepted + 1
    pc,         \* per thread: where its call of index() stands
    req,        \* per thread: the request it handles (0: none yet)
    loc,        \* per thread: the locals of index()
    calls,      \* per thread: the library calls index() has made, in order
    download,   \* per thread: what yf.download did: "raised", "empty" or "rows"
    exc,        \* per thread: the exception that left index(), if any
    response    \* per thread: what index() returned

vars == <<environ, figs, accepted, pc, req, loc, calls, download, exc, response>>

NoExc == [type |-> "", site |-> ""]

NoPct == [num |-> 0, den |-> 0]

NoPrompt == [ticker |-> "", first_close |-> -1, last_close |-> -1,
             pct_change |-> NoPct, headlines |-> Unset]

Fresh == [ticker |-> "", data |-> NoneData, first_close |-> -1, last_close |-> -1,
          pct_change |-> NoPct, plot_url |-> NoImage, closed |-> NoFigure,
          headlines |-> Unset, prompt |-> NoPrompt, e |-> Unset, comment |-> Unset]

\* the inputs the environment may supply
Inputs ==
    [keys |-> {"<None>", "", "k3y"},
     args |-> {NoArg, "msft"},
     downloads |-> Downloads,
     floats |-> BOOLEAN,
     faults |-> BOOLEAN,
     https |-> Https,
     chats |-> Chats]

\* a reduced input set for runs with several handler threads
ThreadedInputs ==
    [keys |-> {"<None>"},
     args |-> {NoArg, "msft"},
     downloads |-> {d \in Downloads : d.raises \/ (d.columns = "flat" /\ d.close = <<1, 1>>)},
     floats |-> {TRUE},
     faults |-> BOOLEAN,
     https |-> {h \in Https : h.neterr},
     chats |-> {c \in Chats : c.content = <<"Shares fell.">>}]

InitWith(In) ==
    /\ environ \in In.keys
    /\ figs = <<>>
    /\ accepted = 0
    /\ pc = [t \in Threads |-> "idle"]
    /\ req = [t \in Threads |-> 0]
    /\ loc = [t \in Threads |-> Fresh]
    /\ calls = [t \in Threads |-> <<>>]
    /\ download = [t \in Threads |-> ""]
    /\ exc = [t \in Threads |-> NoExc]
    /\ response = [t \in Threads |-> NoResponse]

\* an exception propagates out of index(): nothing below the raising line runs
Raise(t, type, site) ==
    /\ pc' = [pc EXCEPT ![t] = "raised"]
    /\ exc' = [exc EXCEPT ![t] = [type |-> type, site |-> site]]
    /\ response' = [response EXCEPT ![t] = ErrorResponse]

Goto(t, label) ==
    /\ pc' = [pc EXCEPT ![t] = label]
    /\ UNCHANGED <<exc, response>>

Called(t, name) == calls' = [calls EXCEPT ![t] = Append(@, name)]

\* lines 81-85: a request is accepted, the ticker read, the price history fetched
Index(t, In) ==
    /\ pc[t] \in {"idle", "done", "raised"}
    /\ accepted < MaxRequests
    /\ \E arg \in In.args, dl \in In.downloads :
        LET ticker == upper(IF arg = NoArg THEN "AAPL" ELSE arg)
            data == get_stock_data(dl)
        IN  /\ accepted' = accepted + 1
            /\ req' = [req EXCEPT ![t] = accepted + 1]
            /\ loc' = [loc EXCEPT ![t] = [Fresh EXCEPT !.ticker = ticker, !.data = data]]
            /\ calls' = [calls EXCEPT ![t] = <<"yf.download">>]
            /\ download' = [download EXCEPT ![t] =
                    IF dl.raises THEN "raised" ELSE IF Len(dl.close) = 0 THEN "empty" ELSE "rows"]
            /\ exc' = [exc EXCEPT ![t] = NoExc]
            /\ IF data = NoneData
               THEN /\ pc' = [pc EXCEPT ![t] = "done"]
                    /\ response' = [response EXCEPT ![t] = NoDataPage(ticker)]
               ELSE /\ pc' = [pc EXCEPT ![t] = "price_move"]
                    /\ response' = [response EXCEPT ![t] = NoResponse]
    /\ UNCHANGED <<environ, figs>>

\* lines 88-90.  With MultiIndex columns data["Close"] is a frame and
\* .iloc[0] a one-element Series: float() of it converts or raises TypeError,
\* depending on the pandas release.
PriceMove(t, In) ==
    /\ pc[t] = "price_move"
    /\ \E converts \in In.floats :
        LET series == loc[t].data.close
            first == series[1]
            last == series[Len(series)]
        IN  IF Len(series) = 0                                  \* .iloc[0] of no rows
            THEN Raise(t, "IndexError", "price_move") /\ UNCHANGED loc
            ELSE IF loc[t].data.columns = "multi" /\ ~converts
            THEN Raise(t, "TypeError", "price_move") /\ UNCHANGED loc
            ELSE IF first = 0
            THEN /\ Raise(t, "ZeroDivisionError", "price_move")
                 /\ loc' = [loc EXCEPT ![t].first_close = first, ![t].last_close = last]
            ELSE /\ Goto(t, "figure")
                 /\ loc' = [loc EXCEPT ![t].first_close = first,
                                       ![t].last_close = last,
                                       ![t].pct_change = [num |-> (last - first) * 100,
                                                          den |-> first]]
    /\ UNCHANGED <<environ, figs, accepted, req, download, calls>>

\* line 93
PltFigure(t) ==
    /\ pc[t] = "figure"
    /\ figs' = new_figure(figs, req[t])
    /\ Called(t, "plt.figure")
    /\ Goto(t, "plot")
    /\ UNCHANGED <<environ, accepted, req, download, loc>>

\* line 94
PltPlot(t, In) ==
    /\ pc[t] = "plot"
    /\ Called(t, "plt.plot")
    /\ \E fault \in In.faults :
        IF fault
        THEN figs' = gcf(figs, req[t]) /\ Raise(t, "Exception", "plt.plot")
        ELSE figs' = plot(figs, req[t]) /\ Goto(t, "decorate")
    /\ UNCHANGED <<environ, accepted, req, download, loc>>

\* lines 95-105
PltDecorate(t, In) ==
    /\ pc[t] = "decorate"
    /\ Called(t, "plt.title")
    /\ \E fault \in In.faults :
        IF fault
        THEN figs' = gcf(figs, req[t]) /\ Raise(t, "Exception", "plt.tight_layout")
        ELSE figs' = title(figs, req[t], ChartTitle(loc[t].ticker)) /\ Goto(t, "savefig")
    /\ UNCHANGED <<environ, accepted, req, download, loc>>

\* lines 108-111
PltSavefig(t, In) ==
    /\ pc[t] = "savefig"
    /\ Called(t, "plt.savefig")
    /\ figs' = gcf(figs, req[t])
    /\ \E fault \in In.faults :
        IF fault
        THEN Raise(t, "Exception", "plt.savefig") /\ UNCHANGED loc
        ELSE /\ loc' = [loc EXCEPT ![t].plot_url = b64encode(savefig(figs, req[t]))]
             /\ Goto(t, "close")
    /\ UNCHANGED <<environ, accepted, req, download>>

\* line 112
PltClose(t) ==
    /\ pc[t] = "close"
    /\ Called(t, "plt.close")
    /\ figs' = close(figs)
    /\ loc' = [loc EXCEPT ![t].closed = IF Len(figs) = 0 THEN NoFigure ELSE figs[Len(figs)]]
    /\ Goto(t, "news")
    /\ UNCHANGED <<environ, accepted, req, download>>

\* lines 115-134
News(t, In) ==
    /\ pc[t] = "news"
    /\ \E http \in In.https :
        LET res == get_recent_news(environ, http) IN
        /\ calls' = [calls EXCEPT ![t] =
                        @ \o <<"get_recent_news">>
                          \o [i \in 1..res.requests |-> "requests.get"]]
        /\ IF res.raises
           THEN Raise(t, res.exc, "get_recent_news") /\ UNCHANGED loc
           ELSE /\ Goto(t, "llm")
                /\ loc' = [loc EXCEPT
                            ![t].headlines = res.value,
                            ![t].prompt = [ticker |-> loc[t].ticker,
                                           first_close |-> loc[t].first_close,
                                           last_close |-> loc[t].last_close,
                                           pct_change |-> loc[t].pct_change,
                                           headlines |-> res.value]]
    /\ UNCHANGED <<environ, figs, accepted, req, download>>

\* lines 137-204
Completion(t, In) ==
    /\ pc[t] = "llm"
    /\ Called(t, "chat.completions.create")
    /\ \E chat \in In.chats :
        LET comment == summary(chat) IN
        /\ loc' = [loc EXCEPT ![t].e = ChatError(chat), ![t].comment = comment]
        /\ response' = [response EXCEPT ![t] =
                HtmlPage(loc[t].ticker, loc[t].plot_url, comment, loc[t].headlines)]
    /\ pc' = [pc EXCEPT ![t] = "done"]
    /\ UNCHANGED <<environ, figs, accepted, req, download, exc>>

Handler(t, In) ==
    \/ Index(t, In)
    \/ PriceMove(t, In)
    \/ PltFigure(t)
    \/ PltPlot(t, In)
    \/ PltDecorate(t, In)
    \/ PltSavefig(t, In)
    \/ PltClose(t)
    \/ News(t, In)
    \/ Completion(t, In)

\* requests served one after the other
Init == InitWith(Inputs)

Next == Handler(MainThread, Inputs)

Spec == Init /\ [][Next]_vars

\* app.run() serves each request in a thread of its own
ThreadedInit == InitWith(ThreadedInputs)

ThreadedNext == \E t \in Threads : Handler(t, ThreadedInputs)

ThreadedSpec == ThreadedInit /\ [][ThreadedNext]_vars

\* ------------------------------------------------------------------ properties
Finished(t) == pc[t] \in {"done", "raised"}

IsPage(t) == pc[t] = "done" /\ response[t].kind = "page"

Owned(r) == {i \in 1..Len(figs) : figs[i].owner = r}

\* C1: when yf.download raised or returned an empty frame, index() has
\* returned the no-data page: no exception left it, the response holds no
\* chart image, and no chart was drawn.
C1_NoDataPage ==
    \A t \in Threads :
        download[t] \in {"raised", "empty"} =>
            /\ pc[t] = "done"
            /\ exc[t] = NoExc
            /\ response[t].kind = "nodata"
            /\ response[t].ticker = loc[t].ticker
            /\ response[t].img = NoImage
            /\ loc[t].plot_url = NoImage
            /\ Owned(req[t]) = {}

C1_Witness ==
    \E t \in Threads :
        /\ download[t] = "empty"
        /\ accepted = 2
        /\ response[t].kind = "nodata"

\* C2: no figure created by a finished request (returned or raised) is
\* still open in pyplot's registry.
C2_FigureReleased ==
    \A i \in 1..Len(figs) :
        \E t \in Threads : req[t] = figs[i].owner /\ ~Finished(t)

\* C3: the image a request encoded is of the figure it created, holding
\* only its own series and its own title, and the figure its plt.close()
\* closed is the one it created.
C3_NoCrossRequestChart ==
    \A t \in Threads :
        /\ loc[t].plot_url # NoImage =>
            /\ loc[t].plot_url.png.owner = req[t]
            /\ loc[t].plot_url.png.lines = <<req[t]>>
            /\ loc[t].plot_url.png.title = ChartTitle(loc[t].ticker)
        /\ loc[t].closed # NoFigure => loc[t].closed.owner = req[t]

\* C4: when the model call raised e, the commentary is
\* "(AI summary unavailable: " + str(e) + ")" and index() returned the full
\* page, with the form and the chart image; nothing propagated.
C4_SummaryUnavailable ==
    \A t \in Threads :
        loc[t].e # Unset =>
            /\ pc[t] = "done"
            /\ exc[t] = NoExc
            /\ loc[t].comment = <<"(AI summary unavailable: ">> \o loc[t].e \o <<")">>
            /\ response[t].kind = "page"
            /\ response[t].form
            /\ response[t].recap = loc[t].comment
            /\ response[t].img = loc[t].plot_url
            /\ response[t].img.encoding = "base64"

C4_Witness ==
    \E t \in Threads :
        /\ pc[t] = "done"
        /\ loc[t].e = <<"Connection error.">>
        /\ response[t].recap = <<"(AI summary unavailable: ", "Connection error.", ")">>

\* C5: get_recent_news never raises: every request that reached the news
\* fetch holds a headlines value, an advisory in each error case, and no
\* exception left index() from the news fetch.
C5_NewsNeverRaises ==
    \A t \in Threads :
        /\ exc[t].site # "get_recent_news"
        /\ (pc[t] \in {"llm", "done"} /\ download[t] = "rows") => loc[t].headlines # Unset

\* C6: with NEWSAPI_KEY unset or empty, get_recent_news returned exactly the
\* missing-key advisory, no request went to the news API, and the rendered
\* page carries that advisory in its warning paragraph.
C6_MissingKey ==
    \A t \in Threads :
        (environ \in {"<None>", ""} /\ "get_recent_news" \in {calls[t][i] : i \in 1..Len(calls[t])}) =>
            /\ loc[t].headlines = <<Glyph, " No API key found (missing NEWSAPI_KEY).">>
            /\ \A i \in 1..Len(calls[t]) : calls[t][i] # "requests.get"
            /\ IsPage(t) =>
                response[t].warning =
                    <<"<p class='warning'>", Glyph,
                      " No API key found (missing NEWSAPI_KEY).", "</p>">>

C6_Witness ==
    \E t \in Threads :
        /\ environ = ""
        /\ IsPage(t)
        /\ response[t].warning # <<>>

\* C7: the columns of the price frame are single-level whenever index() has
\* read data["Close"].
C7_FlattenedBeforeAccess ==
    \A t \in Threads :
        (download[t] = "rows" /\ pc[t] # "price_move") => loc[t].data.columns = "flat"

IsAdvisory(h) == startswith(h, Glyph)

\* "- h1\n- h2 ...": one to pageSize lines, each prefixed by "- "
IsHeadlineList(h) ==
    /\ Len(h) > 0
    /\ ~startswith(h, Glyph)
    /\ Len(h) % 3 = 2
    /\ (Len(h) + 1) \div 3 <= pageSize
    /\ \A i \in 1..Len(h) :
        /\ i % 3 = 1 => h[i] = "- "
        /\ i % 3 = 0 => h[i] = "\n"

\* C8: the news result is a headline list or an advisory, and the page
\* holds the warning paragraph exactly when it is an advisory.
C8_NewsResultVariant ==
    \A t \in Threads :
        loc[t].headlines # Unset =>
            /\ IsAdvisory(loc[t].headlines) \/ IsHeadlineList(loc[t].headlines)
            /\ IsPage(t) => (response[t].warning # <<>> <=> IsAdvisory(loc[t].headlines))

\* C9: for a frame of two or more rows (with single-level columns, so that
\* the reads of C7 are not in question) the price move was computed without
\* raising, and it is (last - first) / first * 100.
C9_PercentChange ==
    \A t \in Threads :
        LET d == loc[t].data IN
        (download[t] = "rows" /\ pc[t] # "price_move"
            /\ d.columns = "flat" /\ Len(d.close) >= 2) =>
            /\ exc[t].site # "price_move"
            /\ loc[t].pct_change.den # 0
            /\ loc[t].pct_change.num * d.close[1]
                 = (d.close[Len(d.close)] - d.close[1]) * 100 * loc[t].pct_change.den
            /\ pc[t] \in {"llm", "done"} => loc[t].prompt.pct_change = loc[t].pct_change

Rank(c) == CASE c = "yf.download" -> 1
             [] c = "plt.figure" -> 2
             [] c = "plt.plot" -> 3
             [] c = "plt.title" -> 4
             [] c = "plt.savefig" -> 5
             [] c = "plt.close" -> 6
             [] c = "get_recent_news" -> 7
             [] c = "requests.get" -> 8
             [] c = "chat.completions.create" -> 9

Made(t, c) == \E i \in 1..Len(calls[t]) : calls[t][i] = c

\* C10: within a request every call is made at most once and in the order
\* price fetch, chart (figure .. close), news fetch, model call; the news
\* fetch and the model call are made only after rows came back and the
\* figure was closed; on the no-data path the price fetch is the only call.
C10_SingleAttemptInOrder ==
    \A t \in Threads :
        /\ \A i, j \in 1..Len(calls[t]) : i < j => Rank(calls[t][i]) < Rank(calls[t][j])
        /\ req[t] # 0 => calls[t][1] = "yf.download"
        /\ (Made(t, "get_recent_news") \/ Made(t, "chat.completions.create")) =>
                download[t] = "rows" /\ Made(t, "plt.close")
        /\ Made(t, "chat.completions.create") => Made(t, "get_recent_news")
        /\ download[t] \in {"raised", "empty"} =>
                calls[t] = <<"yf.download">> /\ Owned(req[t]) = {}

C10_Witness ==
    \E t \in Threads :
        /\ pc[t] = "done"
        /\ calls[t] = <<"yf.download", "plt.figure", "plt.plot", "plt.title", "plt.savefig",
                        "plt.close", "get_recent_news", "requests.get",
                        "chat.completions.create">>

====
